---- MODULE Spec2Model ----
(***************************************************************************)
(* Binary Search Visualisation (src/app.py).                               *)
(*                                                                         *)
(* BinarySearchAlgorithm.execute is modelled as the operator execute,      *)
(* computed the way the code computes it (initial step, the while loop,    *)
(* the trailing not_found step).  BinarySearchApp is modelled as a state   *)
(* machine with one action per handler; run_auto_play is a generator and   *)
(* is split at its time.sleep, where other handlers may run.               *)
(*                                                                         *)
(* Python None is modelled as None == -1 for the integer-valued fields     *)
(* (mid, current_target): array indices and targets are never negative.    *)
(* self.algorithm is a sequence holding no object (None) or one object.    *)
(* Python lists are 0-based: array[i] of the code is array[i + 1] here.    *)
(***************************************************************************)
EXTENDS Integers, Sequences, FiniteSets, TLC

\* ---- bounds -------------------------------------------------------------
\* values of array elements and targets: range(1, 101) scaled down
MaxVal == 3
\* largest size passed to generate_array (slider 10..50 scaled down)
MaxSize == 2
\* longest array handed to execute() directly
MaxLen == 3

None == -1

\* Python None for the bounds left and right of a step: execute records
\* left >= 0 and right >= -1, so -2 is never a recorded bound
NoBound == -2

VARIABLES
    current_array,   \* BinarySearchApp.current_array
    current_target,  \* BinarySearchApp.current_target
    algorithm,       \* BinarySearchApp.algorithm: <<>> (None) or <<object>>
    current_step,    \* BinarySearchApp.current_step (the cursor)
    all_steps,       \* BinarySearchApp.all_steps (the held trace)
    is_playing,      \* BinarySearchApp.is_playing
    ap_pc,           \* position of the run_auto_play generator
    last_cmd,        \* history: the handler that ran last
    before,          \* history: current_step before that handler ran
    pair_start,      \* history: when previous_step has just run right after
                     \* next_step, current_step before that next_step; else None
    result,          \* history: what that handler returned / yielded
    ap_run           \* history: <<cursor at the click, increments made>> of a
                     \* run_auto_play no other handler has run since; else <<>>

vars == <<current_array, current_target, algorithm, current_step, all_steps,
          is_playing, ap_pc, last_cmd, before, pair_start, result, ap_run>>

\* ---- helpers ------------------------------------------------------------
Range(seq) == {seq[i] : i \in 1..Len(seq)}

IsSorted(seq) == \A i \in 1..(Len(seq) - 1) : seq[i] <= seq[i + 1]

RECURSIVE Pow2(_)
Pow2(k) == IF k = 0 THEN 1 ELSE 2 * Pow2(k - 1)

\* ceil(log2(n)) for n >= 1: the least k with 2^k >= n
RECURSIVE CeilLog2From(_, _)
CeilLog2From(n, k) == IF Pow2(k) >= n THEN k ELSE CeilLog2From(n, k + 1)

CeilLog2(n) == CeilLog2From(n, 0)

\* list.sort() / sorted(): insertion sort, ascending
RECURSIVE Insert(_, _)
Insert(x, seq) ==
    IF seq = <<>> THEN <<x>>
    ELSE IF x <= Head(seq) THEN <<x>> \o seq
    ELSE <<Head(seq)>> \o Insert(x, Tail(seq))

RECURSIVE sorted(_)
sorted(seq) == IF seq = <<>> THEN <<>> ELSE Insert(Head(seq), sorted(Tail(seq)))

\* ---- BinarySearchAlgorithm ----------------------------------------------
\* __init__ with the comparison counter starting at 1
BinarySearchAlgorithmCountFromOne(array, target) ==
    [array |-> array, target |-> target, steps |-> <<>>, comparisons |-> 1,
     found |-> FALSE, found_index |-> -1]

\* BinarySearchAlgorithm.__init__
BinarySearchAlgorithm(array, target) ==
    [array |-> array, target |-> target, steps |-> <<>>, comparisons |-> 0,
     found |-> FALSE, found_index |-> -1]

\* one entry of self.steps
Step(left, right, mid, comparison, message, status) ==
    [left |-> left, right |-> right, mid |-> mid, comparison |-> comparison,
     message |-> message, status |-> status]

\* mid = (left + right) // 2, computed from the first element
MidLinear(left, right) == left

\* mid = (left + right) // 2, rounded up instead of down
MidCeil(left, right) == (left + right + 1) \div 2

\* mid = (left + right) // 2
Mid(left, right) == (left + right) \div 2

\* the comparison of mid_value with the target that never reports equality
CompareNoEqual(mid_value, target) ==
    IF mid_value < target THEN "less" ELSE "greater"

\* the comparison of mid_value with the target with <= in the first test
CompareLe(mid_value, target) ==
    IF mid_value <= target THEN "equal"
    ELSE IF mid_value < target THEN "less"
    ELSE "greater"

\* the if / elif / else on mid_value and self.target
Compare(mid_value, target) ==
    IF mid_value = target THEN "equal"
    ELSE IF mid_value < target THEN "less"
    ELSE "greater"

\* the initial step recorded with mid set to left
InitialStepMidSet(self, left, right) ==
    Step(left, right, left, "None",
         <<"Starting search", self.target, Len(self.array)>>, "searching")

\* the step appended before the loop
InitialStep(self, left, right) ==
    Step(left, right, None, "None",
         <<"Starting search", self.target, Len(self.array)>>, "searching")

\* the while loop with self.comparisons += 1 placed after the test for equality
RECURSIVE LoopCountAfterEqual(_)
LoopCountAfterEqual(s) ==
    IF ~(s.left <= s.right) THEN s
    ELSE
      LET mid == Mid(s.left, s.right)
          mid_value == s.array[mid + 1]
          comparisons == s.comparisons + 1
          cmp == Compare(mid_value, s.target)
      IN  IF cmp = "equal" THEN
              [s EXCEPT !.found = TRUE,
                        !.found_index = mid,
                        !.steps = Append(@, Step(s.left, s.right, mid, "equal",
                                     <<"Found", s.comparisons, mid, mid_value, s.target>>,
                                     "found"))]
          ELSE IF cmp = "less" THEN
              LoopCountAfterEqual(
                  [s EXCEPT !.comparisons = comparisons,
                            !.steps = Append(@, Step(s.left, s.right, mid, "less",
                                     <<"Searching right half", comparisons, mid, mid_value, s.target>>,
                                     "searching")),
                            !.left = mid + 1])
          ELSE
              LoopCountAfterEqual(
                  [s EXCEPT !.comparisons = comparisons,
                            !.steps = Append(@, Step(s.left, s.right, mid, "greater",
                                     <<"Searching left half", comparisons, mid, mid_value, s.target>>,
                                     "searching")),
                            !.right = mid - 1])

\* the while loop of execute; s carries self's fields and the locals left, right
RECURSIVE Loop(_)
Loop(s) ==
    IF ~(s.left <= s.right) THEN s
    ELSE
      LET mid == Mid(s.left, s.right)
          mid_value == s.array[mid + 1]
          comparisons == s.comparisons + 1
          cmp == Compare(mid_value, s.target)
      IN  IF cmp = "equal" THEN
              [s EXCEPT !.comparisons = comparisons,
                        !.found = TRUE,
                        !.found_index = mid,
                        !.steps = Append(@, Step(s.left, s.right, mid, "equal",
                                     <<"Found", comparisons, mid, mid_value, s.target>>,
                                     "found"))]
          ELSE IF cmp = "less" THEN
              Loop([s EXCEPT !.comparisons = comparisons,
                             !.steps = Append(@, Step(s.left, s.right, mid, "less",
                                     <<"Searching right half", comparisons, mid, mid_value, s.target>>,
                                     "searching")),
                             !.left = mid + 1])
          ELSE
              Loop([s EXCEPT !.comparisons = comparisons,
                             !.steps = Append(@, Step(s.left, s.right, mid, "greater",
                                     <<"Searching left half", comparisons, mid, mid_value, s.target>>,
                                     "searching")),
                             !.right = mid - 1])

\* execute that records the not_found step with the bounds the search began with
execute_stale_bounds(self) ==
    LET left0 == 0
        right0 == Len(self.array) - 1
        s0 == [array |-> self.array, target |-> self.target,
               steps |-> Append(self.steps, InitialStep(self, left0, right0)),
               comparisons |-> self.comparisons, found |-> self.found,
               found_index |-> self.found_index,
               left |-> left0, right |-> right0]
        s1 == Loop(s0)
        steps == IF ~s1.found
                 THEN Append(s1.steps,
                        Step(left0, right0, None, "None",
                             <<"Search complete", s1.target, s1.comparisons>>,
                             "not_found"))
                 ELSE s1.steps
    IN  [array |-> s1.array, target |-> s1.target, steps |-> steps,
         comparisons |-> s1.comparisons, found |-> s1.found,
         found_index |-> s1.found_index]

\* BinarySearchAlgorithm.execute: the object after the call (self.steps is returned)
execute(self) ==
    LET left0 == 0
        right0 == Len(self.array) - 1
        s0 == [array |-> self.array, target |-> self.target,
               steps |-> Append(self.steps, InitialStep(self, left0, right0)),
               comparisons |-> self.comparisons, found |-> self.found,
               found_index |-> self.found_index,
               left |-> left0, right |-> right0]
        s1 == Loop(s0)
        steps == IF ~s1.found
                 THEN Append(s1.steps,
                        Step(s1.left, s1.right, None, "None",
                             <<"Search complete", s1.target, s1.comparisons>>,
                             "not_found"))
                 ELSE s1.steps
    IN  [array |-> s1.array, target |-> s1.target, steps |-> steps,
         comparisons |-> s1.comparisons, found |-> s1.found,
         found_index |-> s1.found_index]

\* ---- BinarySearchVisualizer ---------------------------------------------
\* the colour of bar i (0-based) with the range test written i <= left
bar_colour_le(step_data, i) ==
    IF step_data.status = "found" /\ i = step_data.mid THEN "found"
    ELSE IF step_data.mid # None /\ i = step_data.mid THEN "current"
    ELSE IF step_data.left # NoBound /\ step_data.right # NoBound
         THEN IF i <= step_data.left \/ i > step_data.right
              THEN "eliminated"
              ELSE "default"
    ELSE "default"

\* create_bar_chart: the colour of bar i (0-based), by the if / elif chain
bar_colour(step_data, i) ==
    IF step_data.status = "found" /\ i = step_data.mid THEN "found"
    ELSE IF step_data.mid # None /\ i = step_data.mid THEN "current"
    ELSE IF step_data.left # NoBound /\ step_data.right # NoBound
         THEN IF i < step_data.left \/ i > step_data.right
              THEN "eliminated"
              ELSE "default"
    ELSE "default"

\* BinarySearchVisualizer.create_bar_chart: the list colors, one per bar
create_bar_chart(array, step_data) ==
    [k \in 1..Len(array) |-> bar_colour(step_data, k - 1)]

\* ---- BinarySearchApp ----------------------------------------------------
\* what a handler hands back: whether an image was rendered, the status /
\* statistics text (by its kind), the "Step a of b" pair, the value of
\* "Comparisons so far", and the continue flag auto_play_step appends
Result(image, status, step_info, comparisons_so_far, cont) ==
    [image |-> image, status |-> status, step_info |-> step_info,
     comparisons_so_far |-> comparisons_so_far, cont |-> cont]

NoSearch(status) == Result(FALSE, status, <<0, 0>>, None, "absent")

\* self.all_steps[self.current_step] raises IndexError outside -len..len-1
ValidIndex(steps, cursor) == cursor >= -Len(steps) /\ cursor <= Len(steps) - 1

\* display_current_step without the test for an empty all_steps
display_unchecked(steps, cursor) ==
    IF ~ValidIndex(steps, cursor)
    THEN Result(FALSE, "IndexError", <<>>, None, "absent")
    ELSE Result(TRUE, "Statistics", <<cursor + 1, Len(steps)>>, cursor, "absent")

\* BinarySearchApp.display_current_step
display_current_step(steps, cursor) ==
    IF steps = <<>> THEN NoSearch("No search initialized")
    ELSE IF ~ValidIndex(steps, cursor)
         THEN Result(FALSE, "IndexError", <<>>, None, "absent")
         ELSE Result(TRUE, "Statistics", <<cursor + 1, Len(steps)>>, cursor, "absent")

\* the returned tuple with the continue flag appended
WithContinue(r, cont) == [r EXCEPT !.cont = cont]

Values == 1..MaxVal

\* int(target) of the target_input widget (minimum=1, maximum=100, scaled)
Targets == Values

\* random.sample(range(1, 101), size): size distinct values; the order of
\* the sample is lost in sorted(), so a sample is the set of its values
Samples(size) == {S \in SUBSET Values : Cardinality(S) = size}

\* the values of a sample as a list, in some order
RECURSIVE ListOf(_)
ListOf(S) ==
    IF S = {} THEN <<>>
    ELSE LET x == CHOOSE y \in S : TRUE IN <<x>> \o ListOf(S \ {x})

Init ==
    /\ current_array = <<>>
    /\ current_target = None
    /\ algorithm = <<>>
    /\ current_step = 0
    /\ all_steps = <<>>
    /\ is_playing = FALSE
    /\ ap_pc = "idle"
    /\ last_cmd = "none"
    /\ before = 0
    /\ pair_start = None
    /\ ap_run = <<>>
    /\ result = NoSearch("none")

\* the arrays generate_array can leave in self.current_array: the sorted
\* sample, or, when the target must be present and is not, the sample with
\* the element at a random index replaced by the target and sorted again
generate_array_outcomes(size, guarantee_target, target_value) ==
    UNION {LET arr == sorted(ListOf(sample))
           IN  IF guarantee_target /\ target_value \notin Range(arr)
               THEN {sorted([arr EXCEPT ![random_index + 1] = target_value]) :
                        random_index \in 0..(size - 1)}
               ELSE {arr}
           : sample \in Samples(size)}

\* generate_array_outcomes tabulated over the inputs
GenerateArrayTable ==
    [size \in 1..MaxSize, guarantee_target \in BOOLEAN, target_value \in Targets |->
        generate_array_outcomes(size, guarantee_target, target_value)]

\* BinarySearchApp.generate_array
generate_array(size, guarantee_target, target_value) ==
    /\ current_array' \in GenerateArrayTable[size, guarantee_target, target_value]
    /\ last_cmd' = "generate_array"
    /\ before' = current_step
    /\ pair_start' = None
    /\ ap_run' = <<>>
    /\ result' = Result(FALSE, "Generated sorted array", <<>>, None, "absent")
    /\ UNCHANGED <<current_target, algorithm, current_step, all_steps,
                   is_playing, ap_pc>>

\* initialize_search that keeps the cursor where it was
initialize_search_keep_cursor(array, target) ==
    /\ last_cmd' = "initialize_search"
    /\ before' = current_step
    /\ pair_start' = None
    /\ ap_run' = <<>>
    /\ IF array = <<>>
       THEN /\ result' = NoSearch("Please generate an array first")
            /\ UNCHANGED <<current_array, current_target, algorithm,
                           current_step, all_steps, is_playing, ap_pc>>
       ELSE /\ current_target' = target
            /\ algorithm' = <<execute(BinarySearchAlgorithm(array, target))>>
            /\ all_steps' = algorithm'[1].steps
            /\ current_step' = current_step
            /\ result' = display_current_step(all_steps', current_step')
            /\ UNCHANGED <<current_array, is_playing, ap_pc>>

\* BinarySearchApp.initialize_search
initialize_search(array, target) ==
    /\ last_cmd' = "initialize_search"
    /\ before' = current_step
    /\ pair_start' = None
    /\ ap_run' = <<>>
    /\ IF array = <<>>
       THEN /\ result' = NoSearch("Please generate an array first")
            /\ UNCHANGED <<current_array, current_target, algorithm,
                           current_step, all_steps, is_playing, ap_pc>>
       ELSE /\ current_target' = target
            /\ algorithm' = <<execute(BinarySearchAlgorithm(array, target))>>
            /\ all_steps' = algorithm'[1].steps
            /\ current_step' = 0
            /\ result' = display_current_step(all_steps', current_step')
            /\ UNCHANGED <<current_array, is_playing, ap_pc>>

\* start_search_btn.click: initialize_search(app.current_array, target)
start_search(target) == initialize_search(current_array, target)

\* target_input.change: setattr(app, 'current_target', int(t))
target_input_change(t) ==
    /\ current_target' = t
    /\ last_cmd' = "target_input_change"
    /\ before' = current_step
    /\ pair_start' = None
    /\ ap_run' = <<>>
    /\ result' = Result(FALSE, "target", <<>>, None, "absent")
    /\ UNCHANGED <<current_array, algorithm, current_step, all_steps,
                   is_playing, ap_pc>>

\* next_step without the test against the last index
next_step_unguarded ==
    /\ current_step' = current_step + 1
    /\ is_playing' = is_playing
    /\ last_cmd' = "next_step"
    /\ before' = current_step
    /\ pair_start' = None
    /\ ap_run' = <<>>
    /\ result' = display_current_step(all_steps, current_step')
    /\ UNCHANGED <<current_array, current_target, algorithm, all_steps, ap_pc>>

\* BinarySearchApp.next_step
next_step ==
    /\ IF current_step < Len(all_steps) - 1
       THEN /\ current_step' = current_step + 1
            /\ is_playing' = is_playing
       ELSE /\ current_step' = current_step
            /\ is_playing' = FALSE
    /\ last_cmd' = "next_step"
    /\ before' = current_step
    /\ pair_start' = None
    /\ ap_run' = <<>>
    /\ result' = display_current_step(all_steps, current_step')
    /\ UNCHANGED <<current_array, current_target, algorithm, all_steps, ap_pc>>

\* previous_step without the test against 0
previous_step_unguarded ==
    /\ current_step' = current_step - 1
    /\ last_cmd' = "previous_step"
    /\ before' = current_step
    /\ pair_start' = IF last_cmd = "next_step" THEN before ELSE None
    /\ ap_run' = <<>>
    /\ result' = display_current_step(all_steps, current_step')
    /\ UNCHANGED <<current_array, current_target, algorithm, all_steps,
                   is_playing, ap_pc>>

\* previous_step with the test current_step > 1
previous_step_off_by_one ==
    /\ current_step' = IF current_step > 1 THEN current_step - 1 ELSE current_step
    /\ last_cmd' = "previous_step"
    /\ before' = current_step
    /\ pair_start' = IF last_cmd = "next_step" THEN before ELSE None
    /\ ap_run' = <<>>
    /\ result' = display_current_step(all_steps, current_step')
    /\ UNCHANGED <<current_array, current_target, algorithm, all_steps,
                   is_playing, ap_pc>>

\* BinarySearchApp.previous_step
previous_step ==
    /\ current_step' = IF current_step > 0 THEN current_step - 1 ELSE current_step
    /\ last_cmd' = "previous_step"
    /\ before' = current_step
    /\ pair_start' = IF last_cmd = "next_step" THEN before ELSE None
    /\ ap_run' = <<>>
    /\ result' = display_current_step(all_steps, current_step')
    /\ UNCHANGED <<current_array, current_target, algorithm, all_steps,
                   is_playing, ap_pc>>

\* reset_search that also drops the held trace
reset_search_discard ==
    /\ current_step' = 0
    /\ all_steps' = <<>>
    /\ last_cmd' = "reset_search"
    /\ before' = current_step
    /\ pair_start' = None
    /\ ap_run' = <<>>
    /\ result' = NoSearch("No search to reset")
    /\ UNCHANGED <<current_array, current_target, algorithm, is_playing, ap_pc>>

\* BinarySearchApp.reset_search
reset_search ==
    /\ current_step' = 0
    /\ last_cmd' = "reset_search"
    /\ before' = current_step
    /\ pair_start' = None
    /\ ap_run' = <<>>
    /\ result' = IF all_steps # <<>>
                 THEN display_current_step(all_steps, current_step')
                 ELSE NoSearch("No search to reset")
    /\ UNCHANGED <<current_array, current_target, algorithm, all_steps,
                   is_playing, ap_pc>>

\* BinarySearchApp.toggle_auto_play
toggle_auto_play ==
    /\ is_playing' = ~is_playing
    /\ last_cmd' = "toggle_auto_play"
    /\ before' = current_step
    /\ pair_start' = None
    /\ ap_run' = <<>>
    /\ result' = Result(FALSE,
                        IF is_playing' THEN "Stop Auto-Play" ELSE "Start Auto-Play",
                        <<>>, None, "absent")
    /\ UNCHANGED <<current_array, current_target, algorithm, current_step,
                   all_steps, ap_pc>>

\* BinarySearchApp.auto_play_step
auto_play_step ==
    /\ last_cmd' = "auto_play_step"
    /\ before' = current_step
    /\ pair_start' = None
    /\ ap_run' = <<>>
    /\ IF ~is_playing
       THEN /\ result' = WithContinue(display_current_step(all_steps, current_step), "False")
            /\ UNCHANGED <<current_step, is_playing>>
       ELSE IF current_step < Len(all_steps) - 1
       THEN /\ current_step' = current_step + 1
            /\ is_playing' = is_playing
            /\ result' = WithContinue(display_current_step(all_steps, current_step'), "True")
       ELSE /\ is_playing' = FALSE
            /\ current_step' = current_step
            /\ result' = WithContinue(display_current_step(all_steps, current_step), "False")
    /\ UNCHANGED <<current_array, current_target, algorithm, all_steps, ap_pc>>

\* the test of the while loop written with <=
AutoPlayMoreLe == all_steps # <<>> /\ current_step <= Len(all_steps) - 1

\* the test of run_auto_play's while loop
AutoPlayMore == all_steps # <<>> /\ current_step < Len(all_steps) - 1

\* run_auto_play from the click to the first time.sleep, or, when the loop
\* is not entered, to the final yield
run_auto_play_start ==
    /\ ap_pc = "idle"
    /\ last_cmd' = "run_auto_play"
    /\ before' = current_step
    /\ pair_start' = None
    /\ ap_run' = <<current_step, IF AutoPlayMore THEN 1 ELSE 0>>
    /\ IF AutoPlayMore
       THEN /\ current_step' = current_step + 1
            /\ ap_pc' = "sleep"
            /\ result' = result
       ELSE /\ current_step' = current_step
            /\ ap_pc' = "idle"
            /\ result' = display_current_step(all_steps, current_step)
    /\ UNCHANGED <<current_array, current_target, algorithm, all_steps, is_playing>>

\* run_auto_play from the end of a time.sleep: the yield of the frame, then
\* the loop test and either the next increment and sleep or the final yield
run_auto_play_resume ==
    /\ ap_pc = "sleep"
    /\ last_cmd' = "run_auto_play"
    /\ before' = current_step
    /\ pair_start' = None
    /\ result' = display_current_step(all_steps, current_step)
    /\ IF result'.status # "IndexError" /\ AutoPlayMore
       THEN /\ current_step' = current_step + 1
            /\ ap_pc' = "sleep"
            /\ ap_run' = IF ap_run = <<>> THEN <<>>
                         ELSE <<ap_run[1], ap_run[2] + 1>>
       ELSE /\ current_step' = current_step
            /\ ap_pc' = "idle"
            /\ ap_run' = ap_run
    /\ UNCHANGED <<current_array, current_target, algorithm, all_steps, is_playing>>

Next ==
    \/ \E size \in 1..MaxSize, guarantee_target \in BOOLEAN :
         \* target_value is read only when guarantee_target is True
         \E target_value \in (IF guarantee_target THEN Targets ELSE {1}) :
            generate_array(size, guarantee_target, target_value)
    \/ \E target \in Targets : start_search(target)
    \/ \E t \in Targets : target_input_change(t)
    \/ next_step
    \/ previous_step
    \/ reset_search
    \/ toggle_auto_play
    \/ auto_play_step
    \/ run_auto_play_start
    \/ run_auto_play_resume

Spec == Init /\ [][Next]_vars

\* ---- execute() on its own: every array and target -----------------------
Arrays == UNION {[1..n -> Values] : n \in 0..MaxLen}

ExecTargets == 0..(MaxVal + 1)

\* a BinarySearchAlgorithm object has been constructed, execute() not yet called
InitExec ==
    /\ \E array \in Arrays, target \in ExecTargets :
         algorithm = <<BinarySearchAlgorithm(array, target)>>
    /\ current_array = <<>>
    /\ current_target = None
    /\ current_step = 0
    /\ all_steps = <<>>
    /\ is_playing = FALSE
    /\ ap_pc = "idle"
    /\ last_cmd = "none"
    /\ before = 0
    /\ pair_start = None
    /\ ap_run = <<>>
    /\ result = NoSearch("none")

\* self.all_steps = self.algorithm.execute()
execute_call ==
    /\ algorithm[1].steps = <<>>
    /\ algorithm' = <<execute(algorithm[1])>>
    /\ all_steps' = algorithm'[1].steps
    /\ last_cmd' = "execute"
    /\ UNCHANGED <<current_array, current_target, current_step, is_playing,
                   ap_pc, before, pair_start, result, ap_run>>

NextExec == execute_call

SpecExec == InitExec /\ [][NextExec]_vars

\* ---- properties of execute() (checked under SpecExec) --------------------
\* execute() has returned
ExecDone == algorithm # <<>> /\ algorithm[1].steps # <<>>

Last(seq) == seq[Len(seq)]

Terminal(step) == step.status \in {"found", "not_found"}

\* C1: for a sorted array (duplicates allowed) that contains the target, the
\* trace ends in a step with status 'found', comparison 'equal' and
\* array[mid] = target; found is True and found_index is that step's mid.
C1_FoundWhenPresent ==
    (ExecDone /\ IsSorted(algorithm[1].array)
              /\ algorithm[1].target \in Range(algorithm[1].array))
    => LET self == algorithm[1]
           s == Last(self.steps)
       IN  /\ s.status = "found"
           /\ s.comparison = "equal"
           /\ s.mid # None
           /\ self.array[s.mid + 1] = self.target
           /\ self.found = TRUE
           /\ self.found_index = s.mid

\* a sorted array holding the target twice has been searched and the target found
C1_Witness ==
    /\ ExecDone
    /\ IsSorted(algorithm[1].array)
    /\ algorithm[1].found
    /\ Cardinality({i \in 1..Len(algorithm[1].array) :
                      algorithm[1].array[i] = algorithm[1].target}) >= 2

\* C2: for a sorted array that does not contain the target, the last step has
\* status 'not_found', no step has comparison 'equal', found stays False and
\* found_index stays -1.
C2_NotFoundWhenAbsent ==
    (ExecDone /\ IsSorted(algorithm[1].array)
              /\ algorithm[1].target \notin Range(algorithm[1].array))
    => LET self == algorithm[1]
       IN  /\ Last(self.steps).status = "not_found"
           /\ \A i \in 1..Len(self.steps) : self.steps[i].comparison # "equal"
           /\ self.found = FALSE
           /\ self.found_index = -1

\* a sorted array of three elements without the target has been searched,
\* with comparisons made on the way
C2_Witness ==
    /\ ExecDone
    /\ IsSorted(algorithm[1].array)
    /\ Len(algorithm[1].array) = 3
    /\ algorithm[1].target \notin Range(algorithm[1].array)
    /\ algorithm[1].comparisons = 2

\* C3 as stated: for a sorted array the trace has at most
\* ceil(log2(len + 1)) + 1 steps.
C3_Original ==
    (ExecDone /\ IsSorted(algorithm[1].array))
    => Len(algorithm[1].steps) <= CeilLog2(Len(algorithm[1].array) + 1) + 1

\* C3 amended: for a sorted array the trace has at most
\* ceil(log2(len + 1)) + 1 steps when the target is found and at most
\* ceil(log2(len + 1)) + 2 steps when it is not (the initial step, at most
\* ceil(log2(len + 1)) comparison steps, and the not_found step).
C3_StepBound ==
    (ExecDone /\ IsSorted(algorithm[1].array))
    => Len(algorithm[1].steps)
         <= CeilLog2(Len(algorithm[1].array) + 1)
              + (IF algorithm[1].found THEN 1 ELSE 2)

\* a sorted array of three elements whose trace has the full 2 + 2 steps
C3_Witness ==
    /\ ExecDone
    /\ IsSorted(algorithm[1].array)
    /\ Len(algorithm[1].array) = 3
    /\ ~algorithm[1].found
    /\ Len(algorithm[1].steps) = CeilLog2(Len(algorithm[1].array) + 1) + 2

\* C4: for every array (sorted or not) the first step has status 'searching'
\* and mid unset, the last step is terminal, every step in between has status
\* 'searching', and exactly one step is terminal.
C4_TraceShape ==
    ExecDone
    => LET steps == algorithm[1].steps
       IN  /\ Len(steps) >= 2
           /\ steps[1].status = "searching"
           /\ steps[1].mid = None
           /\ Terminal(Last(steps))
           /\ \A i \in 2..(Len(steps) - 1) : steps[i].status = "searching"
           /\ Cardinality({i \in 1..Len(steps) : Terminal(steps[i])}) = 1

\* an unsorted array has been searched and its trace has intermediate steps
C4_Witness ==
    /\ ExecDone
    /\ ~IsSorted(algorithm[1].array)
    /\ Len(algorithm[1].steps) >= 4

\* ---- properties of the session (checked under Spec) ----------------------
\* C5: whenever a trace is bound, 0 <= current_step < len(all_steps).
C5_CursorInRange ==
    all_steps # <<>> => (0 <= current_step /\ current_step < Len(all_steps))

\* run_auto_play has just moved the cursor up to the last index
C5_Witness ==
    /\ all_steps # <<>>
    /\ last_cmd = "run_auto_play"
    /\ ap_pc = "sleep"
    /\ before < current_step
    /\ current_step = Len(all_steps) - 1

\* C6 as stated: next_step followed by previous_step returns the cursor to
\* its value before the pair, and at cursor 0 and at the last index both
\* operations of the pair leave the cursor alone.
C6_Original ==
    (all_steps # <<>> /\ pair_start # None)
    => /\ current_step = pair_start
       /\ (pair_start \in {0, Len(all_steps) - 1}
             => (before = pair_start /\ current_step = before))

\* C6 amended: from a cursor below the last index, next_step moves the cursor
\* up by one and the following previous_step returns it to its value before
\* the pair (cursor 0 included); at the last index next_step leaves the cursor
\* alone and the following previous_step moves it to the last index - 1.
C6_RoundTrip ==
    (all_steps # <<>> /\ pair_start # None)
    => IF pair_start < Len(all_steps) - 1
       THEN before = pair_start + 1 /\ current_step = pair_start
       ELSE before = pair_start /\ current_step = pair_start - 1

\* a next_step / previous_step pair has just run from cursor 0
C6_Witness ==
    /\ all_steps # <<>>
    /\ last_cmd = "previous_step"
    /\ pair_start = 0
    /\ before = 1
    /\ current_step = 0

\* C7: previous_step at cursor 0 leaves the cursor at 0 and next_step at the
\* last index leaves the cursor at the last index, every time, and neither
\* raises.
C7_Saturation ==
    /\ (last_cmd = "previous_step" /\ before = 0)
         => (current_step = 0 /\ result.status # "IndexError")
    /\ (last_cmd = "next_step" /\ all_steps # <<>> /\ before = Len(all_steps) - 1)
         => /\ current_step = before
            /\ result.status # "IndexError"
            /\ result.step_info = <<Len(all_steps), Len(all_steps)>>

\* previous_step has just run with the cursor at 0 of a bound trace
C7_Witness ==
    /\ all_steps # <<>>
    /\ last_cmd = "previous_step"
    /\ before = 0
    /\ current_step = 0

\* C8 as stated: after initialize_search, for any array including the empty
\* one, the held trace is the trace of execute() on (array, target) and the
\* cursor is 0.
C8_Original ==
    last_cmd = "initialize_search"
    => /\ current_step = 0
       /\ \E target \in Targets :
            all_steps = execute(BinarySearchAlgorithm(current_array, target)).steps

\* C8 amended: after initialize_search with a non-empty array, from any prior
\* state, the held trace is the trace of execute() on (array, target) and the
\* cursor is 0; with the empty array the command returns 'Please generate an
\* array first' and changes neither the held trace, the cursor, the target
\* nor the algorithm object.
C8_Bind ==
    [][last_cmd' = "initialize_search"
       => IF current_array # <<>>
          THEN /\ all_steps'
                    = execute(BinarySearchAlgorithm(current_array, current_target')).steps
               /\ algorithm'[1].array = current_array
               /\ current_step' = 0
               /\ result'.step_info = <<1, Len(all_steps')>>
          ELSE /\ UNCHANGED <<all_steps, current_step, current_target, algorithm>>
               /\ result'.status = "Please generate an array first"]_vars

\* initialize_search has just replaced a trace whose cursor had been moved
C8_Witness ==
    /\ last_cmd = "initialize_search"
    /\ before > 0
    /\ current_step = 0
    /\ all_steps # <<>>

NavigationCommands ==
    {"next_step", "previous_step", "reset_search", "auto_play_step", "run_auto_play"}

\* C9: before any search has been started, every navigation command returns
\* the no-search result (no image, an explanatory status, 'Step 0 of 0') and
\* leaves the cursor at 0 and the trace empty.
C9_NoSearch ==
    (all_steps = <<>> /\ last_cmd \in NavigationCommands)
    => /\ result.image = FALSE
       /\ result.status \in {"No search initialized", "No search to reset"}
       /\ result.step_info = <<0, 0>>
       /\ before = 0
       /\ current_step = 0
       /\ ap_pc = "idle"

\* run_auto_play has just run with no search started
C9_Witness ==
    /\ all_steps = <<>>
    /\ last_cmd = "run_auto_play"
    /\ result.status = "No search initialized"

\* C10 as stated: next_step, previous_step and reset_search change nothing
\* but the cursor: the trace, the array, the target and is_playing stay.
C10_Original ==
    [][last_cmd' \in {"next_step", "previous_step", "reset_search"}
       => UNCHANGED <<all_steps, current_array, current_target, is_playing>>]_vars

\* C10 amended: next_step, previous_step and reset_search leave the trace,
\* the array, the target and the algorithm object unchanged, and reset_search
\* sets the cursor to 0; is_playing is unchanged too, except that next_step
\* called with the cursor at the last index (or with no trace) sets it False.
C10_Frame ==
    [][last_cmd' \in {"next_step", "previous_step", "reset_search"}
       => /\ UNCHANGED <<all_steps, current_array, current_target, algorithm>>
          /\ (last_cmd' = "reset_search" => current_step' = 0)
          /\ IF last_cmd' = "next_step" /\ ~(current_step < Len(all_steps) - 1)
             THEN is_playing' = FALSE
             ELSE is_playing' = is_playing]_vars

\* reset_search has just moved the cursor of a bound trace back to 0 while
\* auto-play was switched on
C10_Witness ==
    /\ last_cmd = "reset_search"
    /\ before > 0
    /\ current_step = 0
    /\ all_steps # <<>>
    /\ is_playing

\* ---- the view and the trace: C11 .. C15 ----------------------------------
\* a step that compared array[mid] with the target
ComparisonStep(step) == step.mid # None

\* C11 as stated: in every frame, 'Comparisons so far' (the cursor) is the
\* number of steps up to and including the cursor that made a comparison.
C11_Original ==
    (all_steps # <<>> /\ result.status = "Statistics")
    => result.comparisons_so_far
         = Cardinality({k \in 1..result.step_info[1] :
                          ComparisonStep(all_steps[k])})

\* C12: for every step of the held trace and every position i of the array,
\* the colour is 'found' iff status is 'found' and i = mid; else 'current'
\* iff mid is set and i = mid; else 'eliminated' iff left and right are set
\* and i is outside left..right; else 'default'.
C12_Highlight ==
    \A n \in 1..Len(all_steps) : \A i \in 0..(Len(current_array) - 1) :
        LET step == all_steps[n]
            cls == create_bar_chart(current_array, step)[i + 1]
            isFound == step.status = "found" /\ i = step.mid
            isMid == step.mid # None /\ i = step.mid
            isOut == /\ step.left # NoBound
                     /\ step.right # NoBound
                     /\ (i < step.left \/ i > step.right)
        IN  /\ cls \in {"found", "current", "eliminated", "default"}
            /\ (cls = "found") <=> isFound
            /\ (cls = "current") <=> (~isFound /\ isMid)
            /\ (cls = "eliminated") <=> (~isFound /\ ~isMid /\ isOut)
            /\ (cls = "default") <=> (~isFound /\ ~isMid /\ ~isOut)

\* the found step of a trace over the projected array is shown, with one bar
\* found and another eliminated
C12_Witness ==
    /\ all_steps # <<>>
    /\ algorithm[1].array = current_array
    /\ current_step = Len(all_steps) - 1
    /\ result.status = "Statistics"
    /\ LET colors == create_bar_chart(current_array, all_steps[current_step + 1])
       IN  /\ \E k \in 1..Len(colors) : colors[k] = "found"
           /\ \E k \in 1..Len(colors) : colors[k] = "eliminated"

\* C13: on the empty array execute() makes no comparison and returns exactly
\* two steps: the initial step (searching, mid unset) and the not_found step.
C13_EmptyArray ==
    (ExecDone /\ algorithm[1].array = <<>>)
    => LET self == algorithm[1]
       IN  /\ Len(self.steps) = 2
           /\ self.steps[1].status = "searching"
           /\ self.steps[1].mid = None
           /\ self.steps[1].comparison = "None"
           /\ self.steps[2].status = "not_found"
           /\ self.steps[2].mid = None
           /\ self.comparisons = 0
           /\ self.found = FALSE

\* execute() has returned on the empty array
C13_Witness ==
    /\ ExecDone
    /\ algorithm[1].array = <<>>
    /\ Last(algorithm[1].steps).status = "not_found"

\* C14: every comparison step has mid = floor((left + right) / 2); after a
\* 'less' step the next step has left = mid + 1 and the same right; after a
\* 'greater' step the next step has right = mid - 1 and the same left; the
\* step after the initial one has the initial left = 0 and right = len - 1.
C14_Narrowing ==
    ExecDone
    => LET self == algorithm[1]
           steps == self.steps
       IN  /\ steps[1].left = 0
           /\ steps[1].right = Len(self.array) - 1
           /\ steps[2].left = steps[1].left
           /\ steps[2].right = steps[1].right
           /\ \A n \in 1..Len(steps) :
                ComparisonStep(steps[n])
                => 2 * steps[n].mid <= steps[n].left + steps[n].right
                   /\ steps[n].left + steps[n].right <= 2 * steps[n].mid + 1
           /\ \A n \in 1..(Len(steps) - 1) :
                /\ steps[n].comparison = "less"
                     => (steps[n + 1].left = steps[n].mid + 1
                         /\ steps[n + 1].right = steps[n].right)
                /\ steps[n].comparison = "greater"
                     => (steps[n + 1].right = steps[n].mid - 1
                         /\ steps[n + 1].left = steps[n].left)

\* a trace that narrowed once to the right and once to the left
C14_Witness ==
    /\ ExecDone
    /\ \E n \in 1..Len(algorithm[1].steps) :
         algorithm[1].steps[n].comparison = "less"
    /\ \E n \in 1..Len(algorithm[1].steps) :
         algorithm[1].steps[n].comparison = "greater"

\* C15: when execute() returns, self.comparisons is the number of steps with
\* mid set and comparison 'equal', 'less' or 'greater'; it is len(steps) - 1
\* when the target was found and len(steps) - 2 when it was not.
C15_ComparisonCount ==
    ExecDone
    => LET self == algorithm[1]
           decisions == {n \in 1..Len(self.steps) :
                           /\ ComparisonStep(self.steps[n])
                           /\ self.steps[n].comparison \in {"equal", "less", "greater"}}
       IN  /\ self.comparisons = Cardinality(decisions)
           /\ self.comparisons
                = Len(self.steps) - (IF self.found THEN 1 ELSE 2)

\* the target was found after more than one comparison
C15_Witness ==
    /\ ExecDone
    /\ algorithm[1].found
    /\ algorithm[1].comparisons >= 2

\* ---- auto-play and the projected array: C16 .. C20 -----------------------
\* of a run_auto_play no other handler has interrupted: the cursor is the
\* cursor at the click plus the increments made, at most the last index, and
\* at the end exactly (last index - c) increments have been made
AutoPlayRunCount ==
    (ap_run # <<>> /\ all_steps # <<>>)
    => LET c == ap_run[1]
           increments == ap_run[2]
           last == Len(all_steps) - 1
       IN  /\ current_step = c + increments
           /\ increments <= last - c
           /\ (ap_pc = "sleep" => increments >= 1)
           /\ (ap_pc = "idle" => (increments = last - c /\ current_step = last))

\* C16: a run_auto_play that no other handler interrupts, started with a
\* trace bound and the cursor at c, moves the cursor by one per increment,
\* never past the last index; every time it wakes from its sleep it either
\* makes one more increment or ends, so it ends after exactly
\* (last index - c) increments, with the cursor at the last index.
C16_AutoPlayRun ==
    /\ []AutoPlayRunCount
    /\ [][(ap_run # <<>> /\ ap_pc = "sleep" /\ last_cmd' = "run_auto_play")
            => \/ (ap_pc' = "sleep" /\ ap_run' = <<ap_run[1], ap_run[2] + 1>>
                                   /\ current_step' = current_step + 1)
               \/ (ap_pc' = "idle" /\ ap_run' = ap_run
                                  /\ current_step' = current_step
                                  /\ current_step = Len(all_steps) - 1)]_vars

\* an uninterrupted run_auto_play started at cursor 0 has ended after more
\* than one increment
C16_Witness ==
    /\ ap_run # <<>>
    /\ all_steps # <<>>
    /\ ap_pc = "idle"
    /\ ap_run[1] = 0
    /\ ap_run[2] >= 2
    /\ current_step = Len(all_steps) - 1

\* C17 as stated: whenever the cursor is at the last index after a call of
\* auto_play_step, the call returned continue = False and is_playing is
\* False; a call entered with is_playing False leaves the cursor alone and
\* returns continue = False.
C17_Original ==
    [][last_cmd' = "auto_play_step"
       => /\ (all_steps' # <<>> /\ current_step' = Len(all_steps') - 1)
               => (result'.cont = "False" /\ ~is_playing')
          /\ ~is_playing
               => (current_step' = current_step /\ result'.cont = "False")]_vars

\* C18 as stated: whenever a trace is bound, the projected array is the
\* array the trace was computed from.
C18_Original ==
    all_steps # <<>> => current_array = algorithm[1].array

\* C19: every comparison step has 0 <= left <= mid <= right <= len - 1; the
\* not_found step has left = right + 1 and 0 <= left <= len, and every
\* position of the array is coloured 'eliminated' at that step.
C19_Bounds ==
    ExecDone
    => LET self == algorithm[1]
           n == Len(self.array)
       IN  \A k \in 1..Len(self.steps) :
             LET step == self.steps[k]
             IN  /\ ComparisonStep(step)
                      => /\ 0 <= step.left
                         /\ step.left <= step.mid
                         /\ step.mid <= step.right
                         /\ step.right <= n - 1
                 /\ step.status = "not_found"
                      => /\ step.left = step.right + 1
                         /\ 0 <= step.left
                         /\ step.left <= n
                         /\ \A i \in 0..(n - 1) :
                              create_bar_chart(self.array, step)[i + 1] = "eliminated"

\* a search of three elements ended not_found with left past the last index
C19_Witness ==
    /\ ExecDone
    /\ Len(algorithm[1].array) = 3
    /\ Last(algorithm[1].steps).status = "not_found"
    /\ Last(algorithm[1].steps).left = 3
    /\ algorithm[1].comparisons = 2

\* C20: with other handlers running during run_auto_play's sleep, the frame
\* run_auto_play is about to yield reads a cursor with
\* 0 <= current_step < len(all_steps) of the trace held then, and every frame
\* it has yielded was read without an IndexError from the held trace.
C20_FramesInRange ==
    /\ ap_pc = "sleep"
         => (all_steps # <<>> /\ 0 <= current_step /\ current_step < Len(all_steps)
             /\ display_current_step(all_steps, current_step).status = "Statistics")
    /\ last_cmd = "run_auto_play"
         => /\ result.status # "IndexError"
            /\ result.status = "Statistics"
                 => /\ result.step_info[2] = Len(all_steps)
                    /\ 1 <= result.step_info[1]
                    /\ result.step_info[1] <= Len(all_steps)

\* during the sleep of run_auto_play, initialize_search has bound a trace no
\* longer than the position the cursor had
C20_Witness ==
    /\ ap_pc = "sleep"
    /\ last_cmd = "initialize_search"
    /\ all_steps # <<>>
    /\ Len(all_steps) <= before
    /\ current_step = 0

====
